---- MODULE Spec2Model ----
(***************************************************************************)
(* SpotifyLikedSongsMirrorBot: the request engine (SpotifyClient.request), *)
(* the paginated listing fetcher (fetchAllLikedTracks), the candidate      *)
(* selector (selectCandidateUris), the chunked writer and the pass         *)
(* orchestrator (syncLikedSongsMirror as called by main).                  *)
(*                                                                         *)
(* Encodings.  A uri is a natural number, 0 standing for the empty string. *)
(* A playlist id is a natural number >= 1, 0 standing for null.  An error  *)
(* thrown by a remote call is a record [kind, status]: kind names the      *)
(* class of the error (SpotifyApiError carries the HTTP status; an         *)
(* AbortError or a connection failure carries status 0).                   *)
(***************************************************************************)
EXTENDS Integers, Sequences, FiniteSets, TLC

\* ---------------------------------------------------------------- bounds
\* longest listing handed to selectCandidateUris on its own
MaxListing == 3
\* most items a scripted page carries, and the largest total it reports
MaxPageItems == 3
MaxTotal == 5
\* most passes main is run for
MaxPasses == 2
\* runs of main followed to their end under fairness
MaxLivePasses == 1

\* ------------------------------------------------------ program constants
SPOTIFY_PLAYLIST_WRITE_BATCH_SIZE == 100
MAX_RETRIES == 4
limit == 50
NoId == 0
EmptyUri == 0

\* ------------------------------------------------------------- data model
NullTrack == [isNull |-> TRUE, uri |-> EmptyUri, is_local |-> "false", is_playable |-> "null"]

Track(uri, is_local, is_playable) ==
    [isNull |-> FALSE, uri |-> uri, is_local |-> is_local, is_playable |-> is_playable]

SavedTrackItem(added_at, track) == [added_at |-> added_at, track |-> track]

Min(a, b) == IF a < b THEN a ELSE b

\* items.slice(from, to) with 0-based from (inclusive) and to (exclusive)
slice(items, from, to) == SubSeq(items, from + 1, Min(to, Len(items)))

RECURSIVE Flatten(_)
Flatten(seqs) ==
    IF seqs = <<>> THEN <<>> ELSE Head(seqs) \o Flatten(Tail(seqs))

\* ------------------------------------------------- buildInitialPlaylistName
\* A string is the sequence of its characters; string | null is Null or Some.
MaxName == 3

NoValue == [isNull |-> TRUE, value |-> <<>>]
StringValue(s) == [isNull |-> FALSE, value |-> s]

isWhitespace(c) == c \in {" ", "\t"}

RECURSIVE trimStart(_)
trimStart(s) == IF s # <<>> /\ isWhitespace(Head(s)) THEN trimStart(Tail(s)) ELSE s

RECURSIVE trimEnd(_)
trimEnd(s) ==
    IF s # <<>> /\ isWhitespace(s[Len(s)]) THEN trimEnd(SubSeq(s, 1, Len(s) - 1)) ELSE s

\* String.prototype.trim
trim(s) == trimEnd(trimStart(s))

LikedSongsSuffix == <<"'", "s", " ", "L", "i", "k", "e", "d", " ", "S", "o", "n", "g", "s">>

buildInitialPlaylistNameNoTrim(displayName, fallbackName) ==
    IF displayName.isNull \/ displayName.value = <<>>
    THEN fallbackName
    ELSE displayName.value \o LikedSongsSuffix

\* displayName?.trim() is undefined for null; !trimmed holds for undefined and ""
buildInitialPlaylistName(displayName, fallbackName) ==
    LET trimmed == IF displayName.isNull THEN NoValue
                   ELSE StringValue(trim(displayName.value)) IN
    IF trimmed.isNull \/ trimmed.value = <<>>
    THEN fallbackName
    ELSE trimmed.value \o LikedSongsSuffix

\* ------------------------------------------------------ candidate selector
isSkippableTrack(track) ==
    track.isNull \/ track.uri = EmptyUri \/ track.is_local = "true" \/ track.is_playable = "false"

\* the body of for (const item of likedTracks), on the loop's variables
selectStepDupSkipped(acc, item) ==
    IF isSkippableTrack(item.track) \/ item.track.uri \in acc.seenUris
    THEN [acc EXCEPT !.skippedCount = @ + 1]
    ELSE [acc EXCEPT !.seenUris = @ \cup {item.track.uri},
                     !.uris = Append(@, item.track.uri)]

selectStepNoDedupe(acc, item) ==
    IF isSkippableTrack(item.track)
    THEN [acc EXCEPT !.skippedCount = @ + 1]
    ELSE [acc EXCEPT !.uris = Append(@, item.track.uri)]

selectStep(acc, item) ==
    IF isSkippableTrack(item.track)
    THEN [acc EXCEPT !.skippedCount = @ + 1]
    ELSE IF item.track.uri \in acc.seenUris
         THEN acc
         ELSE [acc EXCEPT !.seenUris = @ \cup {item.track.uri},
                          !.uris = Append(@, item.track.uri)]

\* the for loop over likedTracks[lo .. hi], in listing order.  The range is
\* halved, and the accumulator after the first half is a value (the one
\* element of a set) before the second half is entered, so that the
\* evaluation depth stays logarithmic in hi - lo and nothing is computed twice.
RECURSIVE selectLoop(_, _, _, _)
selectLoop(likedTracks, lo, hi, acc) ==
    IF lo > hi THEN acc
    ELSE IF lo = hi THEN selectStep(acc, likedTracks[lo])
    ELSE LET mid == (lo + hi) \div 2 IN
         CHOOSE result \in {selectLoop(likedTracks, mid + 1, hi, firstHalf) :
                               firstHalf \in {selectLoop(likedTracks, lo, mid, acc)}} : TRUE

selectCandidateUrisCountsKept(likedTracks) ==
    LET acc == selectLoop(likedTracks, 1, Len(likedTracks),
                          [seenUris |-> {}, uris |-> <<>>, skippedCount |-> 0]) IN
    [uris |-> acc.uris, likedCount |-> Len(acc.uris) + acc.skippedCount,
     skippedCount |-> acc.skippedCount]

selectCandidateUris(likedTracks) ==
    LET acc == selectLoop(likedTracks, 1, Len(likedTracks),
                          [seenUris |-> {}, uris |-> <<>>, skippedCount |-> 0]) IN
    [uris |-> acc.uris, likedCount |-> Len(likedTracks), skippedCount |-> acc.skippedCount]

\* ------------------------------------------------------------------ chunk
RECURSIVE chunkLoop(_, _, _, _)
chunkLoop(items, size, i, result) ==
    IF i < Len(items)
    THEN chunkLoop(items, size, i + size, Append(result, slice(items, i, i + size)))
    ELSE result

chunkOversize(items, size) == chunkLoop(items, size + 1, 0, <<>>)

chunk(items, size) == chunkLoop(items, size, 0, <<>>)

\* ------------------------------------------------------------------ errors
NoError == [kind |-> "none", status |-> 0]
SpotifyApiError(status) == [kind |-> "SpotifyApiError", status |-> status]
AbortError == [kind |-> "AbortError", status |-> 0]
NetworkError == [kind |-> "NetworkError", status |-> 0]
\* new Error("Spotify token response did not include access_token")
MissingAccessTokenError == [kind |-> "Error", status |-> 0]
\* what JSON.parse throws on a text that is not JSON (the empty text included)
SyntaxError == [kind |-> "SyntaxError", status |-> 0]

\* --------------------------------------------------------- request engine
\* A retry-after header: absent (headers.get gives null), the empty string,
\* text that Number() turns into NaN (an HTTP date), or a decimal integer.
NoHeader == [kind |-> "absent", seconds |-> 0]
EmptyHeader == [kind |-> "empty", seconds |-> 0]
NaNHeader == [kind |-> "nan", seconds |-> 0]
NumberHeader(n) == [kind |-> "number", seconds |-> n]
\* text that Number() turns into Infinity
InfinityHeader == [kind |-> "infinity", seconds |-> 0]

Null == [isNull |-> TRUE, value |-> 0]
Some(v) == [isNull |-> FALSE, value |-> v]
\* a ?? b
Coalesce(a, b) == IF a.isNull THEN b ELSE a.value

parseRetryAfterMsSeconds(headerValue) ==
    IF headerValue.kind \in {"absent", "empty"} THEN Null
    ELSE IF headerValue.kind \in {"nan", "infinity"} \/ headerValue.seconds <= 0 THEN Null
    ELSE Some(headerValue.seconds)

parseRetryAfterMsAcceptsZero(headerValue) ==
    IF headerValue.kind \in {"absent", "empty"} THEN Null
    ELSE IF headerValue.kind \in {"nan", "infinity"} \/ headerValue.seconds < 0 THEN Null
    ELSE Some(headerValue.seconds * 1000)

\* !headerValue; !Number.isFinite(seconds) || seconds <= 0; seconds * 1000
parseRetryAfterMs(headerValue) ==
    IF headerValue.kind \in {"absent", "empty"} THEN Null
    ELSE IF headerValue.kind \in {"nan", "infinity"} \/ headerValue.seconds <= 0 THEN Null
    ELSE Some(headerValue.seconds * 1000)

\* One attempt's outcome: fetch resolves with a response, rejects with an
\* AbortError (the REQUEST_TIMEOUT_MS timer aborted it), or rejects with
\* another error (a connection failure).
Response(status, retryAfter) == [kind |-> "response", status |-> status, retryAfter |-> retryAfter]
Timeout == [kind |-> "abort", status |-> 0, retryAfter |-> NoHeader]
ConnectionFailure == [kind |-> "neterror", status |-> 0, retryAfter |-> NoHeader]

Outcomes ==
    {Response(s, NoHeader) : s \in {200, 400, 401, 403, 404, 500, 503}}
    \cup {Response(429, h) : h \in {NoHeader, EmptyHeader, NaNHeader,
                                    NumberHeader(-1), NumberHeader(0), NumberHeader(2)}}
    \cup {Response(500, NumberHeader(1))}
    \cup {Timeout, ConnectionFailure}

responseOk(status) == status >= 200 /\ status <= 299

shouldRetryOnly429(status) == status = 429

shouldRetry(status) == status = 429 \/ status >= 500

attemptBudgetInclusive(attempt) == attempt <= MAX_RETRIES

attemptBudget(attempt) == attempt < MAX_RETRIES

backoffMsLinear(attempt) == 500 * attempt

backoffMs(attempt) == 500 * 2 ^ (attempt - 1)

\* request(url, options): options.body is "undefined" for a call without a
\* body, options.accessToken is 0 for a call without a token
RequestOptions(method, body, accessToken) ==
    [method |-> method, body |-> body, accessToken |-> accessToken]

NoOptions == RequestOptions("undefined", "undefined", 0)

\* what one attempt hands to fetch, rebuilt from url and options on every
\* iteration of the loop
fetchRequest(url, options) ==
    [url |-> url,
     method |-> IF options.method = "undefined" THEN "GET" ELSE options.method,
     authorization |-> options.accessToken,
     contentType |-> IF options.body # "undefined" THEN "application/json" ELSE "none",
     body |-> options.body]

NewRequest ==
    [pc |-> "attempt", attempt |-> 0, fetches |-> 0, sleeps |-> <<>>,
     outcomes |-> <<>>, error |-> NoError,
     url |-> "", options |-> NoOptions, requests |-> <<>>]

\* One iteration of the while (true) loop of SpotifyClient.request.
requestStep(r, o) ==
    LET sent == [r EXCEPT !.fetches = @ + 1, !.outcomes = Append(@, o),
                          !.requests = Append(@, fetchRequest(r.url, r.options))] IN
    IF o.kind = "abort"
    THEN IF attemptBudget(r.attempt)
         THEN [sent EXCEPT !.attempt = @ + 1,
                           !.sleeps = Append(@, backoffMs(r.attempt + 1))]
         ELSE [sent EXCEPT !.pc = "thrown", !.error = AbortError]
    ELSE IF o.kind = "neterror"
    THEN [sent EXCEPT !.pc = "thrown", !.error = NetworkError]
    ELSE IF responseOk(o.status)
    THEN [sent EXCEPT !.pc = "returned"]
    ELSE IF shouldRetry(o.status) /\ attemptBudget(r.attempt)
    THEN [sent EXCEPT !.attempt = @ + 1,
                      !.sleeps = Append(@, Coalesce(parseRetryAfterMs(o.retryAfter),
                                                    backoffMs(r.attempt + 1)))]
    ELSE [sent EXCEPT !.pc = "thrown", !.error = SpotifyApiError(o.status)]

\* ------------------------------------------------- refreshAccessToken
\* A response together with the text of its body, as far as the two loops
\* read it: JSON carrying access_token, JSON without it, or no text at all.
Bodies == {"access_token", "json", "empty"}

WithBody(o, body) ==
    [kind |-> o.kind, status |-> o.status, retryAfter |-> o.retryAfter, body |-> body]

\* the retry-after values Outcomes leaves out: on a 5xx status, and Infinity
HeaderOutcomes ==
    {Response(503, h) : h \in {NaNHeader, NumberHeader(0), InfinityHeader}}
    \cup {Response(429, InfinityHeader)}

TokenOutcomes ==
    {WithBody(o, "json") : o \in Outcomes \cup HeaderOutcomes}
    \cup {WithBody(Response(200, NoHeader), b) : b \in Bodies}

\* what one attempt of refreshAccessToken hands to fetch
tokenRequest ==
    [url |-> "/api/token", method |-> "POST", authorization |-> 0,
     contentType |-> "application/x-www-form-urlencoded", body |-> "refresh_token"]

NewTokenRequest ==
    [pc |-> "attempt", attempt |-> 0, fetches |-> 0, sleeps |-> <<>>,
     outcomes |-> <<>>, error |-> NoError,
     url |-> "/api/token", options |-> NoOptions, requests |-> <<>>]

tokenShouldRetry(status) == status = 429 \/ status >= 500

tokenBackoffMsIgnoresHeader(headerValue, attempt) == 500 * 2 ^ (attempt - 1)

\* const backoffMs = retryAfterMs ?? 500 * 2 ** (attempt - 1)
tokenBackoffMs(headerValue, attempt) ==
    Coalesce(parseRetryAfterMs(headerValue), 500 * 2 ^ (attempt - 1))

\* One iteration of the while (true) loop of refreshAccessToken.
refreshStep(r, o) ==
    LET sent == [r EXCEPT !.fetches = @ + 1, !.outcomes = Append(@, o),
                          !.requests = Append(@, tokenRequest)] IN
    IF o.kind = "abort"
    THEN IF r.attempt < MAX_RETRIES
         THEN [sent EXCEPT !.attempt = @ + 1,
                           !.sleeps = Append(@, 500 * 2 ^ ((r.attempt + 1) - 1))]
         ELSE [sent EXCEPT !.pc = "thrown", !.error = AbortError]
    ELSE IF o.kind = "neterror"
    THEN [sent EXCEPT !.pc = "thrown", !.error = NetworkError]
    ELSE IF responseOk(o.status)
    THEN IF o.body = "empty"
         THEN [sent EXCEPT !.pc = "thrown", !.error = SyntaxError]
         ELSE IF o.body # "access_token"
         THEN [sent EXCEPT !.pc = "thrown", !.error = MissingAccessTokenError]
         ELSE [sent EXCEPT !.pc = "returned"]
    ELSE IF tokenShouldRetry(o.status) /\ r.attempt < MAX_RETRIES
    THEN [sent EXCEPT !.attempt = @ + 1,
                      !.sleeps = Append(@, tokenBackoffMs(o.retryAfter, r.attempt + 1))]
    ELSE [sent EXCEPT !.pc = "thrown", !.error = SpotifyApiError(o.status)]

\* --------------------------------------------------------------- the state
VARIABLES
    impl,          \* which syncLikedSongsMirror is linked: "sync-service" or "state-store"
    stateFile,     \* state/state.json: the persisted playlistId (NoId for null)
    playlists,     \* upstream playlists: id -> [exists, items]
    liked,         \* upstream liked-songs library, newest first
    tokensIssued,  \* access tokens the accounts service has handed out
    passes,        \* passes started so far
    procs,         \* the processes (runs of main) that may execute
    run,           \* per process: the locals of main and syncLikedSongsMirror
    req,           \* one call of SpotifyClient.request: its loop state
    config,        \* loadConfig(): [fallbackPlaylistName]
    user,          \* the upstream profile GET /me returns: [display_name]
    tok            \* one call of SpotifyClient.refreshAccessToken: its loop state

vars == <<impl, stateFile, playlists, liked, tokensIssued, passes, procs, run, req,
         config, user, tok>>

ProcIds == {1, 2}
PlaylistIds == 1 .. (MaxPasses + 1)

PositiveInfinity == [finite |-> FALSE, value |-> 0]
Finite(n) == [finite |-> TRUE, value |-> n]
\* n < total, total possibly Number.POSITIVE_INFINITY
LessOrEqual(n, total) == (~total.finite) \/ n <= total.value

Less(n, total) == (~total.finite) \/ n < total.value

NoCandidate == [uris |-> <<>>, likedCount |-> 0, skippedCount |-> 0]
NoSummary ==
    [playlistId |-> NoId, createdPlaylist |-> FALSE, likedCount |-> 0,
     candidateCount |-> 0, mirroredCount |-> 0, skippedCount |-> 0]

\* history kept for the claims: the mirror playlist of the previous run of
\* main and what it held when that run completed (none when it failed or
\* never ran)
NoPrev == [completed |-> FALSE, playlistId |-> NoId, items |-> <<>>]

FreshRun ==
    [pc |-> "idle", state |-> NoId, accessToken |-> 0, playlistId |-> NoId,
     createdPlaylist |-> FALSE, results |-> <<>>, offset |-> 0,
     total |-> PositiveInfinity, likedTracks |-> <<>>, candidate |-> NoCandidate,
     uriChunks |-> <<>>, i |-> 0, summary |-> NoSummary, nextState |-> NoId,
     exitCode |-> 0, error |-> NoError, calls |-> <<>>, served |-> <<>>,
     stateWrites |-> 0, currentUser |-> [display_name |-> NoValue],
     playlistName |-> <<>>, mirrorAfter |-> <<>>, prev |-> NoPrev,
     earlierTokens |-> {}]

IdleRequest ==
    [pc |-> "idle", attempt |-> 0, fetches |-> 0, sleeps |-> <<>>,
     outcomes |-> <<>>, error |-> NoError,
     url |-> "", options |-> NoOptions, requests |-> <<>>]

\* a remote call as the upstream service saw it
Call(op, r, playlistId, uris, offset, error) ==
    [op |-> op, token |-> r.accessToken, playlistId |-> playlistId, uris |-> uris,
     offset |-> offset, limit |-> 0, error |-> error]

\* the errors a call of request (or refreshAccessToken) can end with
CallErrors ==
    {SpotifyApiError(s) : s \in {400, 403, 404, 500}} \cup {NetworkError, AbortError}

ThrowExitZero(r, call) ==
    [r EXCEPT !.pc = "failed", !.error = call.error, !.calls = Append(@, call)]

\* throw: the rejection reaches main().catch, which sets process.exitCode
Throw(r, call) ==
    [r EXCEPT !.pc = "failed", !.error = call.error, !.exitCode = 1,
              !.calls = Append(@, call)]

\* ------------------------------------------------------ upstream service
NoPlaylist == [exists |-> FALSE, items |-> <<>>, deleted |-> FALSE]
DeletedPlaylist == [exists |-> FALSE, items |-> <<>>, deleted |-> TRUE]
LivePlaylist(items) == [exists |-> TRUE, items |-> items, deleted |-> FALSE]

PlainItem(k) == SavedTrackItem(k, Track(k, "false", "null"))

\* records the selector must not turn into candidates: a removed track, a
\* second like of track 1, a local file, an unplayable track
Extras ==
    <<SavedTrackItem(0, NullTrack), SavedTrackItem(0, Track(1, "false", "true")),
      SavedTrackItem(0, Track(900, "true", "null")),
      SavedTrackItem(0, Track(901, "absent", "false"))>>

\* a library whose candidates are the uris 1 .. n, in that order
Library(n, mixed) ==
    LET plain == [k \in 1 .. n |-> PlainItem(k)] IN
    IF mixed /\ n >= 1 THEN <<plain[1]>> \o Extras \o Tail(plain) ELSE plain

\* most liked tracks of a library: three write batches, the last one short
MaxLiked == 201

Libraries ==
    {Library(n, m) : n \in {0, 1, 100, 101, MaxLiked}, m \in BOOLEAN}

\* GET /me/tracks?limit=..&offset=..
LikedPage(offset) ==
    [items |-> slice(liked, offset, offset + limit), total |-> Len(liked)]

\* The errors the service may answer a playlist call with.  A probe of a
\* playlist that exists is never answered 404; a 403 on the empty replace is
\* the service's answer for a playlist that is already empty.
UpstreamErrors(op, uris, pl) ==
    IF op = "getPlaylist" /\ pl.exists THEN CallErrors \ {SpotifyApiError(404)}
    ELSE IF op = "replacePlaylistItems" /\ uris = <<>> /\ pl.exists /\ pl.items # <<>>
         THEN CallErrors \ {SpotifyApiError(403)}
         ELSE CallErrors

\* what a playlist call can end with: success needs the playlist to exist
UpstreamResults(op, uris, pl) ==
    UpstreamErrors(op, uris, pl) \cup (IF pl.exists THEN {NoError} ELSE {})

\* ----------------------------------------------------------------- main
\* main, up to the call of syncLikedSongsMirror: readState
MainStart(p) ==
    /\ run[p].pc \in {"idle", "done", "failed"}
    /\ passes < MaxPasses
    /\ passes' = passes + 1
    /\ run' = [run EXCEPT ![p] =
                 [FreshRun EXCEPT !.pc = "refresh", !.state = stateFile,
                                  !.prev = IF run[p].pc = "done"
                                           THEN [completed |-> TRUE,
                                                 playlistId |-> run[p].playlistId,
                                                 items |-> run[p].mirrorAfter]
                                           ELSE NoPrev,
                                  !.earlierTokens =
                                      run[p].earlierTokens \cup
                                      (IF run[p].accessToken # 0
                                       THEN {run[p].accessToken} ELSE {})]]
    /\ UNCHANGED <<impl, config, user, tok, stateFile, playlists, liked, tokensIssued, procs, req>>

RefreshAccessTokenCached(p) ==
    /\ run[p].pc = "refresh"
    /\ IF tokensIssued > 0
       THEN /\ run' = [run EXCEPT ![p].accessToken = tokensIssued,
                                  ![p].pc = "getCurrentUser"]
            /\ UNCHANGED tokensIssued
       ELSE /\ tokensIssued' = tokensIssued + 1
            /\ run' = [run EXCEPT ![p].accessToken = tokensIssued + 1,
                                  ![p].pc = "getCurrentUser",
                                  ![p].calls = Append(@, Call("refreshAccessToken", run[p],
                                                              NoId, <<>>, 0, NoError))]
    /\ UNCHANGED <<impl, config, user, tok, stateFile, playlists, liked, passes, procs, req>>

\* const accessToken = await spotifyClient.refreshAccessToken()
RefreshAccessToken(p) ==
    /\ run[p].pc = "refresh"
    /\ \E e \in CallErrors \cup {NoError} :
         LET call == Call("refreshAccessToken", run[p], NoId, <<>>, 0, e) IN
         IF e = NoError
         THEN /\ tokensIssued' = tokensIssued + 1
              /\ run' = [run EXCEPT ![p].accessToken = tokensIssued + 1,
                                    ![p].pc = "getCurrentUser",
                                    ![p].calls = Append(@, call)]
         ELSE /\ run' = [run EXCEPT ![p] = Throw(@, call)]
              /\ UNCHANGED tokensIssued
    /\ UNCHANGED <<impl, config, user, tok, stateFile, playlists, liked, passes, procs, req>>

\* const currentUser = await spotifyClient.getCurrentUser(accessToken);
\* let playlistId = state.playlistId
GetCurrentUser(p) ==
    /\ run[p].pc = "getCurrentUser"
    /\ \E e \in CallErrors \cup {NoError} :
         LET call == Call("getCurrentUser", run[p], NoId, <<>>, 0, e) IN
         IF e = NoError
         THEN run' = [run EXCEPT ![p].currentUser = user,
                                 ![p].playlistId = run[p].state,
                                 ![p].createdPlaylist = FALSE,
                                 ![p].pc = IF run[p].state # NoId THEN "getPlaylist"
                                           ELSE "createPublicPlaylist",
                                 ![p].calls = Append(@, call)]
         ELSE run' = [run EXCEPT ![p] = Throw(@, call)]
    /\ UNCHANGED <<impl, config, user, tok, stateFile, playlists, liked, tokensIssued, passes, procs, req>>

\* the catch of SpotifyClient.getPlaylist
isNotFoundAnyStatus(e) == e.kind = "SpotifyApiError"

isNotFound(e) == e.kind = "SpotifyApiError" /\ e.status = 404

\* SpotifyClient.getPlaylist: a 404 is caught and null returned
GetPlaylist(p) ==
    /\ run[p].pc = "getPlaylist"
    /\ \E e \in UpstreamResults("getPlaylist", <<>>, playlists[run[p].playlistId]) :
         LET call == Call("getPlaylist", run[p], run[p].playlistId, <<>>, 0, e) IN
         IF e = NoError
         THEN run' = [run EXCEPT ![p].pc = "fetchAllLikedTracks",
                                 ![p].calls = Append(@, call)]
         ELSE IF isNotFound(e)
         THEN run' = [run EXCEPT ![p].playlistId = NoId,
                                 ![p].pc = "createPublicPlaylist",
                                 ![p].calls = Append(@, call)]
         ELSE run' = [run EXCEPT ![p] = Throw(@, call)]
    /\ UNCHANGED <<impl, config, user, tok, stateFile, playlists, liked, tokensIssued, passes, procs, req>>

\* the ids the service has not used yet
UnusedIds == {id \in PlaylistIds : playlists[id] = NoPlaylist}

\* const playlistName = buildInitialPlaylistName(currentUser.display_name,
\* config.fallbackPlaylistName);
\* const created = await spotifyClient.createPublicPlaylist(playlistName, accessToken)
CreatePublicPlaylist(p) ==
    /\ run[p].pc = "createPublicPlaylist"
    /\ \E e \in CallErrors \cup (IF UnusedIds # {} THEN {NoError} ELSE {}) :
         LET playlistName == buildInitialPlaylistName(run[p].currentUser.display_name,
                                                      config.fallbackPlaylistName)
             named == [run[p] EXCEPT !.playlistName = playlistName] IN
         IF e = NoError
         THEN LET id == CHOOSE x \in UnusedIds : \A y \in UnusedIds : x <= y
                  call == Call("createPublicPlaylist", run[p], id, <<>>, 0, e) IN
              /\ playlists' = [playlists EXCEPT ![id] = LivePlaylist(<<>>)]
              /\ run' = [run EXCEPT ![p] = [named EXCEPT !.playlistId = id,
                                                         !.createdPlaylist = TRUE,
                                                         !.pc = "fetchAllLikedTracks",
                                                         !.calls = Append(@, call)]]
         ELSE /\ run' = [run EXCEPT ![p] =
                           Throw(named, Call("createPublicPlaylist", run[p], NoId, <<>>, 0, e))]
              /\ UNCHANGED playlists
    /\ UNCHANGED <<impl, config, user, tok, stateFile, liked, tokensIssued, passes, procs, req>>

\* ------------------------------------------------- fetchAllLikedTracks
\* One iteration of the while loop, from the page the request returned to
\* the next evaluation of the loop condition; on leaving the loop the
\* results are returned to syncLikedSongsMirror as likedTracks.
fetchPageInclusive(r, page) ==
    IF Len(page.items) = 0
    THEN [r EXCEPT !.total = Finite(page.total),
                   !.pc = "selectCandidateUris", !.likedTracks = r.results]
    ELSE LET r2 == [r EXCEPT !.total = Finite(page.total),
                             !.results = @ \o page.items,
                             !.offset = @ + Len(page.items)] IN
         IF LessOrEqual(Len(r2.results), r2.total)
         THEN r2
         ELSE [r2 EXCEPT !.pc = "selectCandidateUris", !.likedTracks = r2.results]

fetchPageDropShort(r, page) ==
    IF Len(page.items) = 0
    THEN [r EXCEPT !.total = Finite(page.total),
                   !.pc = "selectCandidateUris", !.likedTracks = r.results]
    ELSE LET r2 == [r EXCEPT !.total = Finite(page.total),
                             !.results = IF Len(@) + Len(page.items) >= page.total
                                         THEN @ ELSE @ \o page.items,
                             !.offset = @ + Len(page.items)] IN
         IF Less(r2.offset, r2.total)
         THEN r2
         ELSE [r2 EXCEPT !.pc = "selectCandidateUris", !.likedTracks = r2.results]

fetchPageNoBreak(r, page) ==
    LET r2 == [r EXCEPT !.total = Finite(page.total),
                        !.results = @ \o page.items,
                        !.offset = @ + Len(page.items)] IN
    IF Less(Len(r2.results), r2.total)
    THEN r2
    ELSE [r2 EXCEPT !.pc = "selectCandidateUris", !.likedTracks = r2.results]

fetchPageAdvanceByLimit(r, page) ==
    IF Len(page.items) = 0
    THEN [r EXCEPT !.total = Finite(page.total),
                   !.pc = "selectCandidateUris", !.likedTracks = r.results]
    ELSE LET r2 == [r EXCEPT !.total = Finite(page.total),
                             !.results = @ \o page.items,
                             !.offset = @ + limit] IN
         IF Less(Len(r2.results), r2.total)
         THEN r2
         ELSE [r2 EXCEPT !.pc = "selectCandidateUris", !.likedTracks = r2.results]

fetchPage(r, page) ==
    IF Len(page.items) = 0
    THEN [r EXCEPT !.total = Finite(page.total),
                   !.pc = "selectCandidateUris", !.likedTracks = r.results]
    ELSE LET r2 == [r EXCEPT !.total = Finite(page.total),
                             !.results = @ \o page.items,
                             !.offset = @ + Len(page.items)] IN
         IF Less(Len(r2.results), r2.total)
         THEN r2
         ELSE [r2 EXCEPT !.pc = "selectCandidateUris", !.likedTracks = r2.results]

\* the request of one page (GET /me/tracks?limit=${limit}&offset=${offset})
\* returns `page`, or throws `e`
FetchStep(p, page, e) ==
    LET call == [Call("getLikedTracks", run[p], NoId, <<>>, run[p].offset, e)
                   EXCEPT !.limit = limit] IN
    /\ run' = [run EXCEPT ![p] =
                 IF e = NoError
                 THEN [fetchPage(@, page) EXCEPT !.calls = Append(@, call),
                                                 !.served = Append(@, page)]
                 ELSE Throw(@, call)]
    /\ UNCHANGED <<impl, config, user, tok, stateFile, playlists, liked, tokensIssued, passes, procs, req>>

\* a page of the upstream library
LikedTracksPage(p) ==
    /\ run[p].pc = "fetchAllLikedTracks"
    /\ \E e \in CallErrors \cup {NoError} : FetchStep(p, LikedPage(run[p].offset), e)

\* a page of a scripted service (as the pagination test's fake fetch serves
\* them): any number of new items, any total
ScriptedPages(r) ==
    LET n0 == Len(Flatten([k \in 1 .. Len(r.served) |-> r.served[k].items])) IN
    {[items |-> [j \in 1 .. n |-> PlainItem(n0 + j)], total |-> t] :
        n \in 0 .. MaxPageItems, t \in 0 .. MaxTotal}

ScriptedTracksPage(p) ==
    /\ run[p].pc = "fetchAllLikedTracks"
    /\ \E page \in ScriptedPages(run[p]), e \in {NoError, SpotifyApiError(500)} :
         FetchStep(p, page, e)

\* const candidate = selectCandidateUris(likedTracks); the state-store copy
\* chunks the candidates in the same synchronous stretch
SelectCandidates(p) ==
    /\ run[p].pc = "selectCandidateUris"
    /\ \E candidate \in {selectCandidateUris(run[p].likedTracks)} :
       run' = [run EXCEPT ![p].candidate = candidate,
                          ![p].pc = IF impl = "sync-service"
                                    THEN "replacePlaylistItems" ELSE "writeChunks",
                          ![p].uriChunks =
                              IF impl = "sync-service" THEN <<>>
                              ELSE chunk(candidate.uris, SPOTIFY_PLAYLIST_WRITE_BATCH_SIZE),
                          ![p].i = 0]
    /\ UNCHANGED <<impl, config, user, tok, stateFile, playlists, liked, tokensIssued, passes, procs, req>>

\* ------------------------------------------------------- playlist writes
replaceToleratesAny403(uris, e) == e = SpotifyApiError(403)

\* SpotifyClient.replacePlaylistItems swallows a 403 on the empty replace
replaceTolerates(uris, e) == Len(uris) = 0 /\ e = SpotifyApiError(403)

\* PUT /playlists/{id}/items {uris}: replacePlaylistItems, returning or throwing
ReplacePlaylistItems(p, uris, e, next) ==
    LET id == run[p].playlistId
        call == Call("replacePlaylistItems", run[p], id, uris, 0, e) IN
    /\ playlists' = IF e = NoError THEN [playlists EXCEPT ![id].items = uris]
                    ELSE playlists
    /\ run' = [run EXCEPT ![p] =
                 IF e = NoError \/ replaceTolerates(uris, e)
                 THEN [next EXCEPT !.calls = Append(@, call)]
                 ELSE Throw(@, call)]

\* POST /playlists/{id}/items {uris}: addPlaylistItems, returning or throwing
AddPlaylistItems(p, uris, e, next) ==
    LET id == run[p].playlistId
        call == Call("addPlaylistItems", run[p], id, uris, 0, e) IN
    /\ playlists' = IF e = NoError THEN [playlists EXCEPT ![id].items = @ \o uris]
                    ELSE playlists
    /\ run' = [run EXCEPT ![p] =
                 IF e = NoError
                 THEN [next EXCEPT !.calls = Append(@, call)]
                 ELSE Throw(@, call)]

ClearPlaylistSkipped(p) ==
    /\ run[p].pc = "replacePlaylistItems"
    /\ run' = [run EXCEPT ![p].pc = "addPlaylistItems",
                          ![p].uriChunks = chunk(run[p].candidate.uris,
                                                 SPOTIFY_PLAYLIST_WRITE_BATCH_SIZE),
                          ![p].i = 0]
    /\ UNCHANGED <<impl, config, user, tok, stateFile, playlists, liked, tokensIssued, passes,
                   procs, req>>

\* sync-service: await spotifyClient.replacePlaylistItems(playlistId, [], accessToken);
\* const uriChunks = chunk(candidate.uris, SPOTIFY_PLAYLIST_WRITE_BATCH_SIZE)
ClearPlaylist(p) ==
    /\ run[p].pc = "replacePlaylistItems"
    /\ \E e \in UpstreamResults("replacePlaylistItems", <<>>, playlists[run[p].playlistId]) :
         ReplacePlaylistItems(p, <<>>, e,
             [run[p] EXCEPT !.pc = "addPlaylistItems",
                            !.uriChunks = chunk(run[p].candidate.uris,
                                                SPOTIFY_PLAYLIST_WRITE_BATCH_SIZE),
                            !.i = 0])
    /\ UNCHANGED <<impl, config, user, tok, stateFile, liked, tokensIssued, passes, procs, req>>

\* the loop degrading to appendWithFallback: a batch answered 400 is not
\* thrown but written again one uri at a time
AppendChunkWithFallback(p) ==
    /\ run[p].pc = "addPlaylistItems"
    /\ run[p].i < Len(run[p].uriChunks)
    /\ LET uriChunk == run[p].uriChunks[run[p].i + 1] IN
       \E e \in UpstreamResults("addPlaylistItems", uriChunk, playlists[run[p].playlistId]) :
         IF e = SpotifyApiError(400)
         THEN /\ run' = [run EXCEPT ![p].uriChunks =
                            SubSeq(@, 1, run[p].i) \o chunk(uriChunk, 1)
                            \o SubSeq(@, run[p].i + 2, Len(@)),
                                    ![p].calls = Append(@,
                                        Call("addPlaylistItems", run[p], run[p].playlistId,
                                             uriChunk, 0, e))]
              /\ UNCHANGED playlists
         ELSE AddPlaylistItems(p, uriChunk, e, [run[p] EXCEPT !.i = @ + 1])
    /\ UNCHANGED <<impl, config, user, tok, stateFile, liked, tokensIssued, passes, procs, req>>

\* sync-service: one iteration of for (const [chunkIndex, uriChunk] of uriChunks.entries())
AppendChunk(p) ==
    /\ run[p].pc = "addPlaylistItems"
    /\ run[p].i < Len(run[p].uriChunks)
    /\ LET uriChunk == run[p].uriChunks[run[p].i + 1] IN
       \E e \in UpstreamResults("addPlaylistItems", uriChunk, playlists[run[p].playlistId]) :
         AddPlaylistItems(p, uriChunk, e, [run[p] EXCEPT !.i = @ + 1])
    /\ UNCHANGED <<impl, config, user, tok, stateFile, liked, tokensIssued, passes, procs, req>>

\* state-store copy: one iteration of for (let i = 0; i < uriChunks.length; i++):
\* the last chunk replaces, the others are added
WriteChunk(p) ==
    /\ run[p].pc = "writeChunks"
    /\ run[p].i < Len(run[p].uriChunks)
    /\ LET uriChunk == run[p].uriChunks[run[p].i + 1]
           isLastChunk == run[p].i = Len(run[p].uriChunks) - 1
           op == IF isLastChunk THEN "replacePlaylistItems" ELSE "addPlaylistItems" IN
       \E e \in UpstreamResults(op, uriChunk, playlists[run[p].playlistId]) :
         IF isLastChunk
         THEN ReplacePlaylistItems(p, uriChunk, e, [run[p] EXCEPT !.i = @ + 1])
         ELSE AddPlaylistItems(p, uriChunk, e, [run[p] EXCEPT !.i = @ + 1])
    /\ UNCHANGED <<impl, config, user, tok, stateFile, liked, tokensIssued, passes, procs, req>>

\* a summary that reports what the playlist holds when the pass returns
syncResultMeasured(r) ==
    [r EXCEPT !.summary =
                  [playlistId |-> r.playlistId,
                   createdPlaylist |-> r.createdPlaylist,
                   likedCount |-> r.candidate.likedCount,
                   candidateCount |-> Len(r.candidate.uris),
                   mirroredCount |-> Len(playlists[r.playlistId].items),
                   skippedCount |-> r.candidate.skippedCount + 0],
              !.nextState = r.playlistId,
              !.pc = "writeState"]

\* a return that never comes: the summary is built, the pass stays in the loop
syncResultNotReturned(r) ==
    [r EXCEPT !.summary =
                  [playlistId |-> r.playlistId,
                   createdPlaylist |-> r.createdPlaylist,
                   likedCount |-> r.candidate.likedCount,
                   candidateCount |-> Len(r.candidate.uris),
                   mirroredCount |-> Len(r.candidate.uris),
                   skippedCount |-> r.candidate.skippedCount + 0],
              !.nextState = r.playlistId]

\* the summary and nextState syncLikedSongsMirror returns
syncResult(r) ==
    [r EXCEPT !.summary =
                  [playlistId |-> r.playlistId,
                   createdPlaylist |-> r.createdPlaylist,
                   likedCount |-> r.candidate.likedCount,
                   candidateCount |-> Len(r.candidate.uris),
                   mirroredCount |-> Len(r.candidate.uris),
                   skippedCount |-> r.candidate.skippedCount + 0],
              !.nextState = r.playlistId,
              !.pc = "writeState"]

ReturnSummary(p) ==
    /\ run[p].pc \in {"addPlaylistItems", "writeChunks"}
    /\ run[p].i = Len(run[p].uriChunks)
    /\ run' = [run EXCEPT ![p] = syncResult(@)]
    /\ UNCHANGED <<impl, config, user, tok, stateFile, playlists, liked, tokensIssued, passes, procs, req>>

MainFinishAlwaysWrites(p) ==
    /\ run[p].pc = "writeState"
    /\ stateFile' = run[p].nextState
    /\ run' = [run EXCEPT ![p].pc = "done", ![p].stateWrites = @ + 1,
                          ![p].mirrorAfter = playlists[run[p].playlistId].items]
    /\ UNCHANGED <<impl, config, user, tok, playlists, liked, tokensIssued, passes, procs, req>>

\* main, after syncLikedSongsMirror: writeState when the id changed
\* (stateWrites counts the calls of writeState)
MainFinish(p) ==
    /\ run[p].pc = "writeState"
    /\ stateFile' = IF run[p].state # run[p].nextState THEN run[p].nextState ELSE stateFile
    /\ run' = [run EXCEPT ![p].pc = "done",
                          ![p].stateWrites = IF run[p].state # run[p].nextState
                                             THEN @ + 1 ELSE @,
                          ![p].mirrorAfter = playlists[run[p].playlistId].items]
    /\ UNCHANGED <<impl, config, user, tok, playlists, liked, tokensIssued, passes, procs, req>>

\* the user deletes a playlist in the Spotify client while no pass runs
ExternalDelete ==
    /\ \A p \in procs : run[p].pc \in {"idle", "done", "failed"}
    /\ \E id \in PlaylistIds :
         /\ playlists[id].exists
         /\ playlists' = [playlists EXCEPT ![id] = DeletedPlaylist]
    /\ UNCHANGED <<impl, config, user, tok, stateFile, liked, tokensIssued, passes, procs, run, req>>

\* ------------------------------------------------------ the request loop
RequestAttempt ==
    /\ req.pc = "attempt"
    /\ \E o \in Outcomes : req' = requestStep(req, o)
    /\ UNCHANGED <<impl, config, user, tok, stateFile, playlists, liked, tokensIssued, passes, procs, run>>

\* refreshAccessToken and request, each fed the outcome of its next attempt:
\* the same outcome for both while both are still in their loops
RefreshAndRequestAttempt ==
    /\ req.pc = "attempt" \/ tok.pc = "attempt"
    /\ \E o \in TokenOutcomes :
         /\ req' = IF req.pc = "attempt" THEN requestStep(req, o) ELSE req
         /\ tok' = IF tok.pc = "attempt" THEN refreshStep(tok, o) ELSE tok
    /\ UNCHANGED <<impl, config, user, stateFile, playlists, liked, tokensIssued, passes, procs, run>>

\* ------------------------------------------------------- specifications
\* fallbackPlaylistName when FALLBACK_PLAYLIST_NAME is not set
DefaultConfig ==
    [fallbackPlaylistName |-> <<"L", "i", "k", "e", "d", " ", "S", "o", "n", "g", "s", " ",
                                "M", "i", "r", "r", "o", "r">>]

Impls == {"sync-service", "state-store"}

\* what the mirror playlist may hold before a pass: nothing, or stale items
PriorItems == {<<>>, <<950, 1>>}

\* main run MaxPasses times in a row against one upstream account
Init ==
    /\ impl \in Impls
    /\ liked \in Libraries
    /\ \E pl \in {NoPlaylist, DeletedPlaylist} \cup {LivePlaylist(it) : it \in PriorItems} :
         /\ playlists = [id \in PlaylistIds |-> IF id = 1 THEN pl ELSE NoPlaylist]
         /\ stateFile = IF pl = NoPlaylist THEN NoId ELSE 1
    /\ tokensIssued = 0
    /\ passes = 0
    /\ procs = {1}
    /\ run = [p \in ProcIds |-> FreshRun]
    /\ req = IdleRequest
    /\ config = DefaultConfig
    /\ user = [display_name |-> StringValue(<<"S", "h", "a", "n", "e">>)]
    /\ tok = IdleRequest

Next ==
    \/ \E p \in procs : MainStart(p)
    \/ \E p \in procs : RefreshAccessToken(p)
    \/ \E p \in procs : GetCurrentUser(p)
    \/ \E p \in procs : GetPlaylist(p)
    \/ \E p \in procs : CreatePublicPlaylist(p)
    \/ \E p \in procs : LikedTracksPage(p)
    \/ \E p \in procs : SelectCandidates(p)
    \/ \E p \in procs : ClearPlaylist(p)
    \/ \E p \in procs : AppendChunk(p)
    \/ \E p \in procs : WriteChunk(p)
    \/ \E p \in procs : ReturnSummary(p)
    \/ \E p \in procs : MainFinish(p)
    \/ ExternalDelete

Spec == Init /\ [][Next]_vars

\* a step of the pass process p is in: every await of main and of
\* syncLikedSongsMirror settles (each HTTP attempt returns or times out, and
\* request gives up after MAX_RETRIES retries), and the synchronous code
\* between two awaits runs on
PassStep(p) ==
    \/ RefreshAccessToken(p)
    \/ GetCurrentUser(p)
    \/ GetPlaylist(p)
    \/ CreatePublicPlaylist(p)
    \/ LikedTracksPage(p)
    \/ SelectCandidates(p)
    \/ ClearPlaylist(p)
    \/ AppendChunk(p)
    \/ WriteChunk(p)
    \/ ReturnSummary(p)
    \/ MainFinish(p)

\* the last MaxLivePasses runs of main of such a series
InitLive ==
    /\ impl \in Impls
    /\ liked \in Libraries
    /\ \E pl \in {NoPlaylist, DeletedPlaylist} \cup {LivePlaylist(it) : it \in PriorItems} :
         /\ playlists = [id \in PlaylistIds |-> IF id = 1 THEN pl ELSE NoPlaylist]
         /\ stateFile = IF pl = NoPlaylist THEN NoId ELSE 1
    /\ tokensIssued = 0
    /\ passes = MaxPasses - MaxLivePasses
    /\ procs = {1}
    /\ run = [p \in ProcIds |-> FreshRun]
    /\ req = IdleRequest
    /\ config = DefaultConfig
    /\ user = [display_name |-> StringValue(<<"S", "h", "a", "n", "e">>)]
    /\ tok = IdleRequest

\* main under that assumption; whether main is started (again), and whether
\* the user deletes a playlist, is left open
SpecLive == InitLive /\ [][Next]_vars /\ WF_vars(PassStep(1))

\* two runs of main started together against one account: both have read the
\* same state file, and nothing orders their calls
MaxOverlapLiked == 101

InitOverlap ==
    /\ impl \in Impls
    /\ liked \in {Library(n, FALSE) : n \in {1, MaxOverlapLiked}}
    /\ \E pl \in {NoPlaylist, LivePlaylist(<<>>)} :
         /\ playlists = [id \in PlaylistIds |-> IF id = 1 THEN pl ELSE NoPlaylist]
         /\ stateFile = IF pl = NoPlaylist THEN NoId ELSE 1
    /\ tokensIssued = 0
    /\ passes = 2
    /\ procs = {1, 2}
    /\ run = [p \in ProcIds |-> [FreshRun EXCEPT !.pc = "refresh", !.state = stateFile]]
    /\ req = IdleRequest
    /\ config = DefaultConfig
    /\ user = [display_name |-> StringValue(<<"S", "h", "a", "n", "e">>)]
    /\ tok = IdleRequest

NextOverlap == \E p \in procs : PassStep(p)

SpecOverlap == InitOverlap /\ [][NextOverlap]_vars

\* selectCandidateUris on its own: every listing of at most MaxListing records
SelectTracks ==
    {NullTrack} \cup
    {Track(uri, is_local, is_playable) :
        uri \in {EmptyUri, 1, 2}, is_local \in {"true", "absent"},
        is_playable \in {"true", "false", "null"}}

Listings ==
    UNION {[1 .. n -> {SavedTrackItem(0, t) : t \in SelectTracks}] : n \in 0 .. MaxListing}

\* everything a sub-specification does not exercise stays at rest
AtRest ==
    /\ impl = "sync-service"
    /\ stateFile = NoId
    /\ playlists = [id \in PlaylistIds |-> NoPlaylist]
    /\ liked = <<>>
    /\ tokensIssued = 0
    /\ passes = 0
    /\ procs = {1}
    /\ config = DefaultConfig
    /\ user = [display_name |-> NoValue]

InitSelect ==
    /\ AtRest
    /\ \E listing \in Listings :
         run = [p \in ProcIds |->
                  IF p = 1 THEN [FreshRun EXCEPT !.pc = "selectCandidateUris",
                                                 !.likedTracks = listing]
                  ELSE FreshRun]
    /\ req = IdleRequest
    /\ tok = IdleRequest

NextSelect == \E p \in procs : SelectCandidates(p)

SpecSelect == InitSelect /\ [][NextSelect]_vars

\* fetchAllLikedTracks on its own, against a scripted service
InitFetch ==
    /\ AtRest
    /\ run = [p \in ProcIds |->
                IF p = 1 THEN [FreshRun EXCEPT !.pc = "fetchAllLikedTracks"] ELSE FreshRun]
    /\ req = IdleRequest
    /\ tok = IdleRequest

NextFetch == \E p \in procs : ScriptedTracksPage(p)

SpecFetch == InitFetch /\ [][NextFetch]_vars

\* one call of SpotifyClient.request, against every sequence of outcomes
\* the calls the client makes through request: getCurrentUser,
\* replacePlaylistItems, addPlaylistItems
RequestInputs ==
    {[url |-> "/me", options |-> RequestOptions("GET", "undefined", 1)],
     [url |-> "/playlists/1/items", options |-> RequestOptions("PUT", "uris", 1)],
     [url |-> "/playlists/1/items", options |-> RequestOptions("POST", "uris", 1)]}

InitRequest ==
    /\ AtRest
    /\ run = [p \in ProcIds |-> FreshRun]
    /\ \E input \in RequestInputs :
         req = [NewRequest EXCEPT !.url = input.url, !.options = input.options]
    /\ tok = IdleRequest

NextRequest == RequestAttempt

SpecRequest == InitRequest /\ [][NextRequest]_vars

\* buildInitialPlaylistName as createPublicPlaylist's caller uses it: every
\* display name of at most MaxName characters, or none
NameChars == {" ", "\t", "S", "h"}

DisplayNames ==
    {NoValue} \cup
    {StringValue(s) : s \in UNION {[1 .. n -> NameChars] : n \in 0 .. MaxName}}

Configs == {DefaultConfig, [fallbackPlaylistName |-> <<"M">>]}

\* refreshAccessToken next to a call of request (addPlaylistItems), against
\* every sequence of outcomes
InitRefresh ==
    /\ AtRest
    /\ run = [p \in ProcIds |-> FreshRun]
    /\ req = [NewRequest EXCEPT !.url = "/playlists/1/items",
                                !.options = RequestOptions("POST", "uris", 1)]
    /\ tok = NewTokenRequest

NextRefresh == RefreshAndRequestAttempt

SpecRefresh == InitRefresh /\ [][NextRefresh]_vars

InitName ==
    /\ impl = "sync-service"
    /\ stateFile = NoId
    /\ playlists = [id \in PlaylistIds |-> NoPlaylist]
    /\ liked = <<>>
    /\ tokensIssued = 1
    /\ passes = 1
    /\ procs = {1}
    /\ config \in Configs
    /\ user \in {[display_name |-> d] : d \in DisplayNames}
    /\ run = [p \in ProcIds |->
                IF p = 1 THEN [FreshRun EXCEPT !.pc = "createPublicPlaylist",
                                               !.accessToken = 1,
                                               !.currentUser = user]
                ELSE FreshRun]
    /\ req = IdleRequest
    /\ tok = IdleRequest

NextName == \E p \in procs : CreatePublicPlaylist(p)

SpecName == InitName /\ [][NextName]_vars

\* ================================================================ claims
\* a run that has computed its candidates
HasSelected(r) ==
    r.pc \in {"replacePlaylistItems", "addPlaylistItems", "writeChunks", "writeState", "done"}

\* the skippability predicate as the specification words it
Skippable(item) ==
    \/ item.track.isNull
    \/ item.track.uri = EmptyUri
    \/ item.track.is_local = "true"
    \/ item.track.is_playable = "false"

SkippedIndexes(listing) == {k \in 1 .. Len(listing) : Skippable(listing[k])}

\* non-skippable records whose uri already occurred in an earlier non-skippable record
DuplicateIndexes(listing) ==
    {k \in 1 .. Len(listing) :
        /\ ~Skippable(listing[k])
        /\ \E j \in 1 .. (k - 1) :
             ~Skippable(listing[j]) /\ listing[j].track.uri = listing[k].track.uri}

\* index of the first non-skippable record carrying uri
FirstOccurrence(listing, uri) ==
    CHOOSE k \in 1 .. Len(listing) :
        /\ ~Skippable(listing[k]) /\ listing[k].track.uri = uri
        /\ \A j \in 1 .. (k - 1) : Skippable(listing[j]) \/ listing[j].track.uri # uri

\* C6: selectCandidateUris returns likedCount = number of input records, and
\* likedCount = len(uris) + skippedCount + duplicateCount, duplicateCount being
\* the number of non-skippable records whose uri occurred in an earlier
\* non-skippable record.
C6_CountsAddUp ==
    \A p \in procs :
        HasSelected(run[p]) =>
            LET c == run[p].candidate
                listing == run[p].likedTracks IN
            /\ c.likedCount = Len(listing)
            /\ c.likedCount = Len(c.uris) + c.skippedCount
                                + Cardinality(DuplicateIndexes(listing))

C6_Witness ==
    \E p \in procs :
        /\ HasSelected(run[p])
        /\ Len(run[p].likedTracks) = 3
        /\ Cardinality(DuplicateIndexes(run[p].likedTracks)) = 1
        /\ run[p].candidate.skippedCount = 1
        /\ Len(run[p].candidate.uris) = 1

\* C7: the uris returned by selectCandidateUris hold no duplicate, each is the
\* non-empty uri of a non-skippable record, every uri of a non-skippable record
\* is present, and they stand in the order of their first non-skippable
\* occurrence in the listing.
C7_FirstSeenOrder ==
    \A p \in procs :
        HasSelected(run[p]) =>
            LET uris == run[p].candidate.uris
                listing == run[p].likedTracks IN
            /\ \A a, b \in 1 .. Len(uris) : a # b => uris[a] # uris[b]
            /\ \A a \in 1 .. Len(uris) :
                 /\ uris[a] # EmptyUri
                 /\ \E k \in 1 .. Len(listing) :
                      ~Skippable(listing[k]) /\ listing[k].track.uri = uris[a]
            /\ \A k \in 1 .. Len(listing) :
                 ~Skippable(listing[k]) =>
                     \E a \in 1 .. Len(uris) : uris[a] = listing[k].track.uri
            /\ \A a, b \in 1 .. Len(uris) :
                 a < b => FirstOccurrence(listing, uris[a]) < FirstOccurrence(listing, uris[b])

C7_Witness ==
    \E p \in procs :
        /\ HasSelected(run[p])
        /\ run[p].candidate.uris = <<2, 1>>
        /\ Len(run[p].likedTracks) = 3
        /\ run[p].likedTracks[3].track.uri = 2
        /\ ~Skippable(run[p].likedTracks[3])

\* C8: skippedCount is exactly the number of skippable records (track absent,
\* uri empty, is_local true, is_playable explicitly false; an absent or null
\* is_playable is playable), and a duplicate of a kept uri does not raise it.
C8_SkippedCountExact ==
    \A p \in procs :
        HasSelected(run[p]) =>
            run[p].candidate.skippedCount
                = Cardinality(SkippedIndexes(run[p].likedTracks))

C8_Witness ==
    \E p \in procs :
        /\ HasSelected(run[p])
        /\ run[p].candidate.skippedCount = 1
        /\ DuplicateIndexes(run[p].likedTracks) = {3}
        /\ run[p].likedTracks[1].track.is_playable = "null"
        /\ run[p].likedTracks[2].track.is_playable = "false"

\* a run whose fetchAllLikedTracks has returned
FetchDone(r) == r.pc = "selectCandidateUris" \/ HasSelected(r)

\* the items of the first k pages the service served, in request order
ServedItems(r, k) == Flatten([j \in 1 .. k |-> r.served[j].items])

\* the reported total is reached by summing the first k pages, none of them empty
TotalReachedAt(r, k) ==
    /\ \A j \in 1 .. k : r.served[j].items # <<>>
    /\ Len(ServedItems(r, k)) = r.served[k].total

\* C4: fetchAllLikedTracks returns exactly `total` items when the total is
\* reached by summing the non-empty pages served, and a page with zero items
\* ends it at once, without error, with the items accumulated so far.
C4_FetchExactTotal ==
    \A p \in procs :
        LET r == run[p]
            n == Len(r.served) IN
        \A k \in 1 .. n :
            /\ TotalReachedAt(r, k) =>
                   /\ k = n
                   /\ FetchDone(r)
                   /\ r.error = NoError
                   /\ Len(r.likedTracks) = r.served[k].total
            /\ r.served[k].items = <<>> =>
                   /\ k = n
                   /\ FetchDone(r)
                   /\ r.error = NoError
                   /\ Len(r.likedTracks) = Len(ServedItems(r, k - 1))

C4_Witness ==
    \E p \in procs :
        /\ FetchDone(run[p])
        /\ Len(run[p].served) = 2
        /\ Len(run[p].served[1].items) = 2
        /\ Len(run[p].served[2].items) = 1
        /\ run[p].served[2].total = 3
        /\ TotalReachedAt(run[p], 2)
        /\ Len(run[p].likedTracks) = 3

\* C5: the listing fetchAllLikedTracks builds is the concatenation, in request
\* order, of the items of every page received: nothing reordered, duplicated
\* or dropped, a short final page included.
C5_ListingIsConcatenation ==
    \A p \in procs :
        /\ run[p].pc \in {"fetchAllLikedTracks", "selectCandidateUris"} =>
               run[p].results = ServedItems(run[p], Len(run[p].served))
        /\ FetchDone(run[p]) =>
               run[p].likedTracks = ServedItems(run[p], Len(run[p].served))

C5_Witness ==
    \E p \in procs :
        /\ FetchDone(run[p])
        /\ Len(run[p].served) = 2
        /\ run[p].served[1] = [items |-> <<PlainItem(1)>>, total |-> 2]
        /\ run[p].served[2] = [items |-> <<PlainItem(2)>>, total |-> 2]
        /\ run[p].likedTracks = <<PlainItem(1), PlainItem(2)>>

\* an attempt that ended in a retryable way: 429, a status >= 500, or a timeout
Retryable(o) ==
    \/ o.kind = "abort"
    \/ o.kind = "response" /\ (o.status = 429 \/ o.status >= 500)

\* C9: whatever the outcomes, one call of request makes at most 5 attempts (the
\* first plus 4 retries, timeouts and retryable statuses on one budget), and 5
\* consecutive 500 responses end it with a terminal error after exactly 5.
C9_AtMostFiveAttempts ==
    LET n == Len(req.outcomes)
        all500 == \A k \in 1 .. n : req.outcomes[k] \in {Response(500, NoHeader),
                                                           Response(500, NumberHeader(1))} IN
    /\ req.fetches = n
    /\ n <= 5
    /\ Len(req.sleeps) <= 4
    /\ Len(req.sleeps) = Cardinality({k \in 1 .. n : Retryable(req.outcomes[k])})
                           - (IF req.pc = "thrown" /\ n > 0 /\ Retryable(req.outcomes[n])
                              THEN 1 ELSE 0)
    /\ (all500 /\ n < 5) => req.pc = "attempt"
    /\ (all500 /\ n = 5) => (req.pc = "thrown" /\ req.error = SpotifyApiError(500))

C9_Witness ==
    /\ req.pc = "thrown"
    /\ req.fetches = 5
    /\ \A k \in 1 .. 5 : req.outcomes[k] = Response(500, NoHeader)
    /\ req.error = SpotifyApiError(500)

\* C10: request resubmits after an attempt exactly when that attempt ended with
\* 429, a status >= 500 or a timeout and fewer than 4 retries have been used; any
\* other non-2xx status ends the call with an error after that attempt, with no
\* backoff delay and no further attempt.
C10_RetryIffRetryable ==
    LET n == Len(req.outcomes) IN
    n >= 1 =>
        LET last == req.outcomes[n]
            retriesUsed == n - 1 IN
        /\ (req.pc = "attempt") <=> (Retryable(last) /\ retriesUsed < 4)
        /\ req.pc = "attempt" => Len(req.sleeps) = n
        /\ (last.kind = "response" /\ ~responseOk(last.status) /\ ~Retryable(last)) =>
               /\ req.pc = "thrown"
               /\ req.error = SpotifyApiError(last.status)
               /\ Len(req.sleeps) = retriesUsed
               /\ req.fetches = n

C10_Witness ==
    /\ req.pc = "thrown"
    /\ req.outcomes = <<Response(404, NoHeader)>>
    /\ req.fetches = 1
    /\ req.sleeps = <<>>
    /\ req.error = SpotifyApiError(404)

\* the k-th attempt answered 429 with a retry-after of n seconds
RateLimitedFor(o) == o.kind = "response" /\ o.status = 429 /\ o.retryAfter.kind = "number"

\* after the k-th attempt the call slept `ms` and resubmitted the same request
ResubmittedAfter(k, ms) ==
    /\ Len(req.sleeps) >= k
    /\ req.sleeps[k] = ms
    /\ req.pc = "attempt" \/ Len(req.requests) > k
    /\ Len(req.requests) > k => req.requests[k + 1] = req.requests[k]

\* C11 as stated: an attempt answered 429 with retry-after N (any number of
\* seconds N >= 0), retry budget remaining, is followed after exactly N * 1000
\* ms by the identical request.
C11_RetryAfterHonoredAnyN ==
    \A k \in 1 .. Len(req.outcomes) :
        LET o == req.outcomes[k] IN
        (RateLimitedFor(o) /\ o.retryAfter.seconds >= 0 /\ k <= 4) =>
            ResubmittedAfter(k, o.retryAfter.seconds * 1000)

\* C11 (amended): an attempt answered 429 with a retry-after of N > 0 seconds,
\* retry budget remaining, is followed after exactly N * 1000 ms (not the
\* exponential delay) by the identical request: same method, URL, body and
\* bearer credential.
C11_RetryAfterHonored ==
    \A k \in 1 .. Len(req.outcomes) :
        LET o == req.outcomes[k] IN
        (RateLimitedFor(o) /\ o.retryAfter.seconds > 0 /\ k <= 4) =>
            ResubmittedAfter(k, o.retryAfter.seconds * 1000)

C11_Witness ==
    /\ Len(req.outcomes) = 3
    /\ req.outcomes[1] = Timeout
    /\ req.outcomes[2] = Response(429, NumberHeader(2))
    /\ req.sleeps = <<500, 2000>>
    /\ req.requests[3] = req.requests[2]
    /\ req.requests[3].method = "PUT"
    /\ req.requests[3].authorization = 1

\* the k-th attempt was retryable and carried no retry-after header
NoRetryAfter(o) ==
    \/ o.kind = "abort"
    \/ o.kind = "response" /\ (o.status = 429 \/ o.status >= 500) /\ o.retryAfter = NoHeader

\* C12: when the retried attempt carries no retry-after duration (a retryable
\* status without the header, or a timeout) the delay before the k-th retry of
\* the call is 500 * 2^(k-1) ms: 500, 1000, 2000, 4000 for k = 1..4, k counting
\* timeout retries and status retries alike.
C12_ExponentialBackoff ==
    \A k \in 1 .. Len(req.sleeps) :
        NoRetryAfter(req.outcomes[k]) =>
            /\ req.sleeps[k] = 500 * 2 ^ (k - 1)
            /\ req.sleeps[k] = <<500, 1000, 2000, 4000>>[k]

C12_Witness ==
    /\ req.outcomes = <<Timeout, Response(503, NoHeader), Timeout, Response(429, NoHeader)>>
    /\ req.sleeps = <<500, 1000, 2000, 4000>>
    /\ req.pc = "attempt"

\* C13: every terminal failure of request (a non-retryable non-2xx status, or
\* the retry budget exhausted by retryable statuses or by timeouts) is raised
\* as a SpotifyApiError carrying the HTTP status.
C13_TerminalFailureIsSpotifyApiError ==
    LET n == Len(req.outcomes) IN
    (req.pc = "thrown" /\ req.outcomes[n].kind \in {"response", "abort"}) =>
        /\ req.error.kind = "SpotifyApiError"
        /\ req.outcomes[n].kind = "response" => req.error.status = req.outcomes[n].status

\* C14: an attempt that fails with a transient network error (a timeout/abort
\* or a connection failure) is retried while retry budget remains; neither
\* ends the call on its first occurrence.
C14_TransientNetworkErrorsRetried ==
    LET n == Len(req.outcomes) IN
    (n >= 1 /\ n <= 4 /\ req.outcomes[n].kind \in {"abort", "neterror"}) =>
        /\ req.pc = "attempt"
        /\ Len(req.sleeps) = n

\* a pass whose syncLikedSongsMirror has just returned its summary
PassCompleted(r) == r.pc = "writeState"

\* the calls of a run that write to the mirror playlist, in the order sent
IsWrite(c) == c.op \in {"replacePlaylistItems", "addPlaylistItems"}
Writes(r) == SelectSeq(r.calls, IsWrite)

\* the writes that carry a batch of uris
IsBatch(c) == IsWrite(c) /\ c.uris # <<>>
Batches(r) == SelectSeq(r.calls, IsBatch)

IsClear(c) == c.op = "replacePlaylistItems" /\ c.uris = <<>>

\* C1: after a pass that completes without error, no one else writing, the
\* mirror playlist holds exactly the candidate uris, in order, whatever it held
\* before and for every candidate count (0, 1..100, more than 100).
C1_MirrorEqualsCandidates ==
    \A p \in procs :
        PassCompleted(run[p]) =>
            playlists[run[p].playlistId].items = run[p].candidate.uris

\* C1 for the syncLikedSongsMirror of sync-service alone
C1_SyncServiceMirrorEqualsCandidates ==
    impl = "sync-service" => C1_MirrorEqualsCandidates

\* C2: in every pass the first write sent to the mirror playlist is the empty
\* replacePlaylistItems, it is sent exactly once, and it has completed before any
\* addPlaylistItems is submitted, also when there is no candidate.
C2_ClearFirstExactlyOnce ==
    \A p \in procs :
        LET w == Writes(run[p]) IN
        /\ Len(w) >= 1 => IsClear(w[1])
        /\ \A k \in 2 .. Len(w) :
             /\ ~IsClear(w[k])
             /\ w[1].error \in {NoError, SpotifyApiError(403)}
        /\ PassCompleted(run[p]) => Len(w) >= 1

\* C2 for the syncLikedSongsMirror of sync-service alone
C2_SyncServiceClearFirstExactlyOnce ==
    impl = "sync-service" => C2_ClearFirstExactlyOnce

\* C3: the write step splits the candidates into contiguous batches of at most
\* 100 uris (all but the last exactly 100, none empty), submits batch i+1 only
\* after the call for batch i returned successfully, and the submitted batches,
\* concatenated in submission order, are the candidate sequence.
C3_BatchesInOrder ==
    \A p \in procs :
        LET b == Batches(run[p])
            uris == run[p].candidate.uris IN
        /\ \A k \in 1 .. Len(b) :
             /\ b[k].uris = SubSeq(uris, 100 * (k - 1) + 1, Min(100 * k, Len(uris)))
             /\ Len(b[k].uris) >= 1
             /\ Len(b[k].uris) <= 100
             /\ k < Len(b) => (b[k].error = NoError /\ Len(b[k].uris) = 100)
        /\ PassCompleted(run[p]) =>
             /\ \A k \in 1 .. Len(b) : b[k].error = NoError
             /\ Flatten([k \in 1 .. Len(b) |-> b[k].uris]) = uris

C3_Witness ==
    \E p \in procs :
        /\ PassCompleted(run[p])
        /\ Len(run[p].candidate.uris) = 201
        /\ Len(Batches(run[p])) = 3
        /\ Len(Batches(run[p])[3].uris) = 1
        /\ impl = "sync-service"

\* the stage of a pass a remote call belongs to: 1 credential refresh, 2
\* identity lookup, 3 probe, 4 create, 5 liked-items page, 7 clear, 8 batch
\* append (6 is the local candidate selection); 0 for a call of no stage
StageOf(c) ==
    CASE c.op = "refreshAccessToken" -> 1
      [] c.op = "getCurrentUser" -> 2
      [] c.op = "getPlaylist" -> 3
      [] c.op = "createPublicPlaylist" -> 4
      [] c.op = "getLikedTracks" -> 5
      [] IsClear(c) -> 7
      [] c.op = "addPlaylistItems" -> 8
      [] OTHER -> 0

\* the stages that may directly follow a stage
NextStages(stage) ==
    CASE stage = 1 -> {2}
      [] stage = 2 -> {3, 4}
      [] stage = 3 -> {4, 5}
      [] stage = 4 -> {5}
      [] stage = 5 -> {5, 7}
      [] stage = 7 -> {8}
      [] stage = 8 -> {8}
      [] OTHER -> {}

\* the errors a pass survives: 404 on the probe, 403 on the empty replace
Tolerated(c) ==
    \/ c.op = "getPlaylist" /\ c.error = SpotifyApiError(404)
    \/ IsClear(c) /\ c.error = SpotifyApiError(403)

\* C15: the remote operations of one pass occur in the fixed order credential
\* refresh, identity lookup, collection resolution (probe and/or create),
\* liked-items page requests, candidate selection, clear, batch appends,
\* summary; each starts after the previous one completed and no earlier stage
\* is re-entered: no write before the whole listing is fetched and selected
\* from, no listing request after the first write.
C15_StagesInOrder ==
    \A p \in procs :
        LET r == run[p]
            c == r.calls
            n == Len(c) IN
        /\ n >= 1 => StageOf(c[1]) = 1
        /\ \A k \in 1 .. n : StageOf(c[k]) # 0
        /\ \A k \in 1 .. (n - 1) :
             /\ StageOf(c[k + 1]) \in NextStages(StageOf(c[k]))
             /\ c[k].error = NoError \/ Tolerated(c[k])
        /\ (\E k \in 1 .. n : IsWrite(c[k])) =>
             /\ r.likedTracks = liked
             /\ r.candidate = selectCandidateUris(liked)
        /\ r.pc = "selectCandidateUris" => (n >= 1 /\ StageOf(c[n]) = 5 /\ r.likedTracks = liked)
        /\ r.summary # NoSummary => r.pc \in {"writeState", "done"}
        /\ PassCompleted(r) => (n >= 1 /\ StageOf(c[n]) \in {7, 8})

\* C15 for the syncLikedSongsMirror of sync-service alone
C15_SyncServiceStagesInOrder ==
    impl = "sync-service" => C15_StagesInOrder

\* C16: when a step of a pass fails with an error that is not one of the two
\* tolerated ones, the pass issues no further remote call, produces no summary,
\* leaves the persisted state exactly as it was read, and the process ends with
\* a non-zero exit code.
C16_FailureAbortsPass ==
    \A p \in procs :
        LET r == run[p]
            c == r.calls
            n == Len(c) IN
        /\ \A k \in 1 .. (n - 1) : c[k].error = NoError \/ Tolerated(c[k])
        /\ (n >= 1 /\ c[n].error # NoError /\ ~Tolerated(c[n])) =>
             /\ r.pc = "failed"
             /\ r.error = c[n].error
             /\ r.summary = NoSummary
             /\ r.nextState = NoId
             /\ stateFile = r.state
             /\ r.exitCode # 0
        /\ r.pc = "failed" => (n >= 1 /\ c[n].error # NoError /\ ~Tolerated(c[n]))

C16_Witness ==
    \E p \in procs :
        LET c == run[p].calls IN
        /\ run[p].pc = "failed"
        /\ c[Len(c)].op = "addPlaylistItems"
        /\ c[Len(c)].error = SpotifyApiError(500)
        /\ \E k \in 1 .. Len(c) : IsClear(c[k]) /\ Tolerated(c[k])
        /\ run[p].createdPlaylist
        /\ stateFile = NoId
        /\ run[p].exitCode = 1

\* the probes and the creations a pass has sent
IsProbe(c) == c.op = "getPlaylist"
IsCreate(c) == c.op = "createPublicPlaylist"

\* a pass that has got past collection resolution
Resolved(r) ==
    \/ r.pc \in {"fetchAllLikedTracks", "selectCandidateUris"}
    \/ HasSelected(r)
    \/ r.pc = "failed" /\ StageOf(r.calls[Len(r.calls)]) \in {5, 7, 8}

\* C17: collection resolution.  With a prior id whose probe resolves, that id
\* is used, createPublicPlaylist is not called and createdPlaylist is false;
\* with a prior id whose probe returns 404, or with no prior id (then without
\* any probe), createPublicPlaylist is called exactly once, its id is used and
\* createdPlaylist is true; a probe failing with any other error aborts the
\* pass without creating.
C17_CollectionResolution ==
    \A p \in procs :
        LET r == run[p]
            probes == SelectSeq(r.calls, IsProbe)
            creates == SelectSeq(r.calls, IsCreate) IN
        /\ Len(probes) <= 1
        /\ Len(creates) <= 1
        /\ r.state = NoId => probes = <<>>
        /\ probes # <<>> => probes[1].playlistId = r.state
        /\ (probes # <<>> /\ probes[1].error = NoError) =>
             /\ creates = <<>>
             /\ r.playlistId = r.state
             /\ ~r.createdPlaylist
        /\ (probes # <<>> /\ probes[1].error \notin {NoError, SpotifyApiError(404)}) =>
             /\ r.pc = "failed"
             /\ creates = <<>>
        /\ (Resolved(r) /\ (r.state = NoId \/ (probes # <<>> /\ probes[1].error = SpotifyApiError(404)))) =>
             /\ Len(creates) = 1
             /\ creates[1].error = NoError
             /\ r.playlistId = creates[1].playlistId
             /\ r.playlistId # NoId
             /\ r.createdPlaylist
        /\ PassCompleted(r) =>
             /\ r.summary.playlistId = r.playlistId
             /\ r.summary.createdPlaylist = r.createdPlaylist

C17_Witness ==
    \E p \in procs :
        LET r == run[p]
            probes == SelectSeq(r.calls, IsProbe)
            creates == SelectSeq(r.calls, IsCreate) IN
        /\ PassCompleted(r)
        /\ r.state = 1
        /\ Len(probes) = 1
        /\ probes[1].error = SpotifyApiError(404)
        /\ Len(creates) = 1
        /\ r.summary.playlistId = 2
        /\ r.summary.createdPlaylist

\* the mirror playlists that resolve upstream
LiveMirrors == {id \in PlaylistIds : playlists[id].exists}

\* C18: over any sequence of passes, failed ones included, a mirror playlist is
\* created at most once while it keeps resolving upstream: a pass creates one
\* only if none was created before or the one created before no longer
\* resolves, so at most one created mirror resolves at any time.
C18_CreatedAtMostOnce == Cardinality(LiveMirrors) <= 1

\* what C19 says of a state: a pass that completed has left in the state file
\* the id it wrote to, writing the file only when that id differs from the id
\* it read; a pass that probes, probes the persisted id
PersistedIdIsMirrorId ==
    \A p \in procs :
        LET r == run[p] IN
        /\ r.pc = "done" =>
             /\ stateFile = r.summary.playlistId
             /\ r.summary.playlistId = r.nextState
             /\ r.nextState = r.playlistId
             /\ r.stateWrites = (IF r.state # r.nextState THEN 1 ELSE 0)
        /\ r.pc # "done" => r.stateWrites = 0
        /\ r.pc = "getPlaylist" => (r.playlistId = stateFile /\ r.playlistId # NoId)

\* the pass that follows a completed pass reads the id that pass wrote to
NextPassReadsMirrorId ==
    \A p \in procs :
        (run[p].pc = "done" /\ run'[p].pc = "refresh") =>
            run'[p].state = run[p].summary.playlistId

\* C19: after a pass that completes successfully the persisted state holds the
\* id of the playlist the pass wrote to (persisted playlistId =
\* summary.playlistId = nextState.playlistId), so the next pass probes and
\* reuses that id; main writes the state file only when that id differs from
\* the id it read.
C19_PersistedIdIsMirrorId == []PersistedIdIsMirrorId /\ [][NextPassReadsMirrorId]_vars

C19_Witness ==
    \E p \in procs :
        LET r == run[p] IN
        /\ passes = 2
        /\ r.pc = "done"
        /\ r.state = 2
        /\ r.calls[3].op = "getPlaylist"
        /\ r.calls[3].playlistId = 2
        /\ r.calls[3].error = NoError
        /\ r.summary.playlistId = 2
        /\ ~r.summary.createdPlaylist
        /\ r.stateWrites = 0
        /\ stateFile = 2

\* the uris the pass sent in writes that succeeded
WrittenUris(r) ==
    UNION {{r.calls[k].uris[j] : j \in 1 .. Len(r.calls[k].uris)} :
             k \in {i \in 1 .. Len(r.calls) : IsWrite(r.calls[i]) /\ r.calls[i].error = NoError}}

\* how many of them the playlist holds
WrittenAndPresent(r) ==
    LET items == playlists[r.playlistId].items IN
    Cardinality({u \in WrittenUris(r) : \E j \in 1 .. Len(items) : items[j] = u})

\* C20: the summary of a completed pass reports exact counts: likedCount = the
\* number of records of the fetched listing, candidateCount = the length of the
\* candidate sequence, skippedCount = the selector's skippedCount, and
\* mirroredCount = the number of uris the pass wrote that are in the playlist
\* at the end of the pass, which equals candidateCount.
C20_SummaryCountsExact ==
    \A p \in procs :
        LET r == run[p] IN
        PassCompleted(r) =>
            /\ r.summary.likedCount = Len(r.likedTracks)
            /\ r.summary.likedCount = Len(liked)
            /\ r.summary.candidateCount = Len(r.candidate.uris)
            /\ r.summary.skippedCount = r.candidate.skippedCount
            /\ r.summary.mirroredCount = WrittenAndPresent(r)
            /\ r.summary.mirroredCount = r.summary.candidateCount

\* C20 for the syncLikedSongsMirror of sync-service alone
C20_SyncServiceSummaryCountsExact ==
    impl = "sync-service" => C20_SummaryCountsExact

\* the characters of s from its first to its last non-whitespace character
Trimmed(s) ==
    LET inked == {k \in 1 .. Len(s) : s[k] \notin {" ", "\t"}} IN
    IF inked = {} THEN <<>>
    ELSE SubSeq(s, CHOOSE a \in inked : \A k \in inked : a <= k,
                   CHOOSE b \in inked : \A k \in inked : b >= k)

\* C24: buildInitialPlaylistName returns "<trimmed name>'s Liked Songs" when the
\* display name is non-empty after trimming, and the fallback title unchanged
\* when the display name is null, empty or only whitespace.
C24_InitialPlaylistName ==
    \A p \in procs :
        LET r == run[p]
            d == r.currentUser.display_name IN
        (r.pc # "createPublicPlaylist" /\ r.calls # <<>>
           /\ r.calls[Len(r.calls)].op = "createPublicPlaylist") =>
            IF d.isNull \/ Trimmed(d.value) = <<>>
            THEN r.playlistName = config.fallbackPlaylistName
            ELSE r.playlistName = Trimmed(d.value) \o
                   <<"'", "s", " ", "L", "i", "k", "e", "d", " ", "S", "o", "n", "g", "s">>

C24_Witness ==
    \E p \in procs :
        /\ run[p].pc = "fetchAllLikedTracks"
        /\ run[p].currentUser.display_name = StringValue(<<" ", "S", "\t">>)
        /\ run[p].playlistName =
             <<"S", "'", "s", " ", "L", "i", "k", "e", "d", " ", "S", "o", "n", "g", "s">>

\* C21: two passes in succession on the same mirror playlist, each completing
\* successfully, the liked listing unchanged between them, leave the playlist
\* after the second with the content and order it had after the first: the
\* second adds no duplicate and loses no item.
C21_SecondPassIdentical ==
    \A p \in procs :
        (run[p].pc = "done" /\ run[p].prev.completed
           /\ run[p].playlistId = run[p].prev.playlistId) =>
            run[p].mirrorAfter = run[p].prev.items

\* with the syncLikedSongsMirror of sync-service, also when the playlist was
\* deleted between the passes and the second pass wrote to a new one
C21_SyncServiceIdenticalAcrossDeletion ==
    \A p \in procs :
        (impl = "sync-service" /\ run[p].pc = "done" /\ run[p].prev.completed) =>
            run[p].mirrorAfter = run[p].prev.items

C21_Witness ==
    \E p \in procs :
        /\ run[p].pc = "done"
        /\ run[p].prev.completed
        /\ impl = "sync-service"
        /\ Len(run[p].prev.items) = 201
        /\ run[p].mirrorAfter = run[p].candidate.uris
        /\ run[p].playlistId = run[p].prev.playlistId

\* C22: exactly two errors are tolerated in a pass: a 403 returned by
\* replacePlaylistItems called with an empty uri list (a successful clear) and a
\* 404 returned by the getPlaylist probe (absent).  Every other terminal error,
\* among them a 403 on a replace with a non-empty list, a 403 or 404 on
\* addPlaylistItems and a 404 on any call other than the probe, propagates and
\* aborts the pass.
C22_ExactlyTwoTolerated ==
    \A p \in procs :
        LET r == run[p]
            c == r.calls
            n == Len(c) IN
        \A k \in 1 .. n :
            LET swallowed == k < n \/ r.pc # "failed"
                clear403 == /\ c[k].op = "replacePlaylistItems" /\ c[k].uris = <<>>
                            /\ c[k].error = SpotifyApiError(403)
                probe404 == c[k].op = "getPlaylist" /\ c[k].error = SpotifyApiError(404) IN
            c[k].error # NoError =>
                /\ swallowed <=> (clear403 \/ probe404)
                /\ ~swallowed => (r.error = c[k].error /\ r.summary = NoSummary)
                /\ clear403 => (k < n => StageOf(c[k + 1]) = 8)
                /\ probe404 => (k < n => c[k + 1].op = "createPublicPlaylist")

C22_Witness ==
    \E p \in procs :
        LET c == run[p].calls IN
        /\ run[p].pc = "failed"
        /\ Len(c) >= 2
        /\ c[Len(c)].op = "replacePlaylistItems"
        /\ c[Len(c)].uris # <<>>
        /\ c[Len(c)].error = SpotifyApiError(403)
        /\ \E k \in 1 .. Len(c) :
             c[k].op = "getPlaylist" /\ c[k].error = SpotifyApiError(404)

\* C23: each pass performs exactly one successful credential exchange
\* (refreshAccessToken is called once, before any other remote call), every
\* later request of the pass carries the credential that exchange returned, and
\* no credential obtained in one pass is used in another.
C23_OneCredentialPerPass ==
    \A p \in procs :
        LET r == run[p]
            c == r.calls
            n == Len(c) IN
        /\ n >= 1 => (c[1].op = "refreshAccessToken" /\ c[1].token = 0)
        /\ r.pc \notin {"idle", "refresh"} => n >= 1
        /\ \A k \in 2 .. n :
             /\ c[k].op # "refreshAccessToken"
             /\ c[1].error = NoError
             /\ c[k].token = r.accessToken
             /\ c[k].token # 0
             /\ c[k].token \notin r.earlierTokens
        /\ r.accessToken # 0 => r.accessToken = tokensIssued
        /\ \A t \in r.earlierTokens : t < tokensIssued \/ r.accessToken = 0

C23_Witness ==
    \E p \in procs :
        LET c == run[p].calls IN
        /\ PassCompleted(run[p])
        /\ run[p].earlierTokens = {1}
        /\ run[p].accessToken = 2
        /\ Len(c) >= 7
        /\ \A k \in 2 .. Len(c) : c[k].token = 2

\* the batches of a run whose write succeeded
IsWrittenBatch(c) == IsBatch(c) /\ c.error = NoError

\* C25: at every point of a pass after the clear has succeeded, the mirror
\* playlist holds a prefix of the candidate sequence made of whole batches; if
\* the append of batch k fails the pass aborts with the playlist holding exactly
\* batches 1..k-1, no later batch is submitted and no summary is produced
\* (for as long as nobody else deletes the playlist).
C25_WholeBatchPrefix ==
    \A p \in procs :
        LET r == run[p]
            c == r.calls
            n == Len(c)
            b == Batches(r)
            written == Len(SelectSeq(c, IsWrittenBatch))
            uris == r.candidate.uris
            items == playlists[r.playlistId].items IN
        /\ ((\E k \in 1 .. n : IsClear(c[k]) /\ (c[k].error = NoError \/ Tolerated(c[k])))
              /\ playlists[r.playlistId].exists) =>
             /\ items = SubSeq(uris, 1, Min(100 * written, Len(uris)))
             /\ Len(items) = Len(uris) \/ Len(items) % 100 = 0
        /\ (b # <<>> /\ b[Len(b)].error # NoError /\ playlists[r.playlistId].exists) =>
             /\ c[n] = b[Len(b)]
             /\ r.pc = "failed"
             /\ r.summary = NoSummary
             /\ written = Len(b) - 1
             /\ items = SubSeq(uris, 1, 100 * (Len(b) - 1))

\* C25 for the syncLikedSongsMirror of sync-service alone
C25_SyncServiceWholeBatchPrefix ==
    impl = "sync-service" => C25_WholeBatchPrefix

\* C26: every request of a page of the liked tracks carries limit 50 and, as
\* its offset, the number of items accumulated from the pages before it (0
\* for the first); a page of n items moves the offset by n, whatever the limit.
IsPageRequest(c) == c.op = "getLikedTracks"

PageRequests(r) == SelectSeq(r.calls, IsPageRequest)

C26_LimitAndOffset ==
    \A p \in procs :
        LET r == run[p]  q == PageRequests(r) IN
        /\ \A k \in 1 .. Len(q) :
             /\ q[k].limit = 50
             /\ k - 1 <= Len(r.served)
             /\ q[k].offset = Len(ServedItems(r, k - 1))
        /\ r.pc = "fetchAllLikedTracks" =>
             /\ r.offset = Len(r.results)
             /\ r.results = ServedItems(r, Len(r.served))

\* a short page (fewer items than the limit) was followed by another request
C26_Witness ==
    \E p \in procs :
        LET r == run[p]  q == PageRequests(r) IN
        /\ Len(q) >= 3
        /\ Len(r.served[1].items) \in 1 .. limit - 1
        /\ Len(r.served[2].items) \in 1 .. limit - 1
        /\ Len(r.served[1].items) # Len(r.served[2].items)
        /\ q[3].offset = Len(r.served[1].items) + Len(r.served[2].items)
\* C27: fetchAllLikedTracks issues at least one request and stops as soon as
\* a page is empty or the items accumulated reach the total the latest page
\* reported; against a service that always reports the same total T it has
\* issued at most max(1, T) requests when it returns.
LastServed(r) == r.served[Len(r.served)]

ConstantTotal(r) == \A j, k \in 1 .. Len(r.served) : r.served[j].total = r.served[k].total

C27_StopsAtEmptyOrTotal ==
    \A p \in procs :
        LET r == run[p]  n == Len(r.served) IN
        /\ FetchDone(r) =>
             /\ n >= 1
             /\ Len(PageRequests(r)) = n
             /\ \/ Len(LastServed(r).items) = 0
                \/ Len(r.likedTracks) >= LastServed(r).total
             /\ \A k \in 1 .. n - 1 :
                  /\ Len(r.served[k].items) > 0
                  /\ Len(ServedItems(r, k)) < r.served[k].total
             /\ ConstantTotal(r) =>
                  n <= IF LastServed(r).total >= 1 THEN LastServed(r).total ELSE 1
        /\ (r.pc = "fetchAllLikedTracks" /\ n >= 1) =>
             /\ Len(LastServed(r).items) > 0
             /\ Len(r.results) < LastServed(r).total

\* a fetch against a constant total that needed exactly that many requests,
\* and one that an empty page ended below the total
C27_Witness ==
    \E p \in procs :
        LET r == run[p]  n == Len(r.served) IN
        /\ FetchDone(r)
        /\ n >= 3
        /\ ConstantTotal(r)
        /\ n = LastServed(r).total
        /\ Len(r.likedTracks) = LastServed(r).total
\* C29: fed the same sequence of attempt outcomes, refreshAccessToken and
\* request make the same number of attempts, sleep the same delays and end
\* the same way (both return, or both throw the same error).
C29_SameRetryPolicy ==
    /\ tok.fetches = req.fetches
    /\ tok.sleeps = req.sleeps
    /\ tok.pc = req.pc
    /\ tok.error = req.error

\* the last response both loops read: 2xx with a body that carries no
\* access_token
LastWithoutToken ==
    /\ tok.outcomes # <<>>
    /\ LET o == tok.outcomes[Len(tok.outcomes)] IN
       o.kind = "response" /\ responseOk(o.status) /\ o.body # "access_token"

\* C29, amended: the attempts and the sleeps are always the same, and so is
\* the end, except on a 2xx response whose body carries no access_token:
\* request returns, refreshAccessToken throws.
C29_SameRetryPolicyUpToToken ==
    /\ tok.fetches = req.fetches
    /\ tok.sleeps = req.sleeps
    /\ tok.outcomes = req.outcomes
    /\ IF LastWithoutToken
       THEN /\ req.pc = "returned"
            /\ tok.pc = "thrown"
            /\ tok.error \in {MissingAccessTokenError, SyntaxError}
       ELSE /\ tok.pc = req.pc
            /\ tok.error = req.error

\* both gave up after five attempts, having slept a server-supplied delay
\* and their own backoff
C29_Witness ==
    /\ tok.pc = "thrown"
    /\ req.pc = "thrown"
    /\ tok.error = SpotifyApiError(503)
    /\ tok.fetches = MAX_RETRIES + 1
    /\ tok.sleeps = <<500, 2000, 2000, 4000>>
    /\ tok.outcomes[4].kind = "abort"
\* C30: the pass never degrades to per-item writes: every addPlaylistItems
\* call carries a whole batch of the candidates (the batch at its position),
\* a call that ends with an error (400 or any other) is the last call of the
\* pass, which aborts without a summary, and a summary's skippedCount is the
\* selector's.
IsAdd(c) == c.op = "addPlaylistItems"

Adds(r) == SelectSeq(r.calls, IsAdd)

C30_NoPerItemWrites ==
    \A p \in procs :
        LET r == run[p]  a == Adds(r)  n == Len(r.calls)
            uriChunks == chunk(r.candidate.uris, SPOTIFY_PLAYLIST_WRITE_BATCH_SIZE) IN
        /\ Len(a) <= Len(uriChunks)
        /\ \A j \in 1 .. Len(a) :
             /\ a[j].uris = uriChunks[j]
             /\ Len(a[j].uris) = 1 =>
                  Len(r.candidate.uris) % SPOTIFY_PLAYLIST_WRITE_BATCH_SIZE = 1
        /\ \A k \in 1 .. n :
             (IsAdd(r.calls[k]) /\ r.calls[k].error # NoError) =>
                 /\ k = n
                 /\ r.pc = "failed"
                 /\ r.error = r.calls[k].error
                 /\ r.summary = NoSummary
        /\ r.pc \in {"writeState", "done"} =>
             /\ r.summary.skippedCount = r.candidate.skippedCount
             /\ r.summary.skippedCount = selectCandidateUris(r.likedTracks).skippedCount

\* the second of three batches was answered 400 and the pass aborted there;
\* the selector had skipped records
C30_Witness ==
    \E p \in procs :
        LET r == run[p]  a == Adds(r) IN
        /\ r.pc = "failed"
        /\ r.candidate.skippedCount > 0
        /\ Len(r.candidate.uris) > 2 * SPOTIFY_PLAYLIST_WRITE_BATCH_SIZE
        /\ Len(a) = 2
        /\ a[2].error = SpotifyApiError(400)
        /\ impl = "sync-service"
\* C28: every pass that starts terminates: it reaches the end of main with
\* its summary, or it aborts with an error.
InPass(r) == r.pc \notin {"idle", "done", "failed"}

C28_PassTerminates ==
    InPass(run[1]) ~>
        \/ run[1].pc = "done" /\ run[1].summary # NoSummary
        \/ run[1].pc = "failed" /\ run[1].error # NoError

\* a pass over three pages and three batches has reached its end
C28_Witness ==
    \E p \in procs :
        /\ run[p].pc = "done"
        /\ run[p].summary.mirroredCount = MaxLiked
        /\ Len(run[p].served) >= 5
\* C32: on every retryable status, 429 and 5xx alike, in request and in
\* refreshAccessToken, the delay before the next attempt is the retry-after
\* value times 1000 ms when the value is a finite number greater than 0, and
\* the exponential delay 500 * 2^(k-1) ms of the k-th retry when the header
\* is absent, empty, zero, negative, not a number or not finite.
PositiveFinite(h) == h.kind = "number" /\ h.seconds > 0

RetryAfterRule(loop) ==
    \A k \in 1 .. Len(loop.sleeps) :
        LET o == loop.outcomes[k] IN
        (o.kind = "response" /\ (o.status = 429 \/ o.status >= 500)) =>
            loop.sleeps[k] = IF PositiveFinite(o.retryAfter)
                             THEN o.retryAfter.seconds * 1000
                             ELSE 500 * 2 ^ (k - 1)

C32_RetryAfterOnlyPositiveFinite == RetryAfterRule(req) /\ RetryAfterRule(tok)

\* a 5xx with a usable value, then a 5xx with 0, a 429 with Infinity and a
\* 429 with a negative value: one server delay, three exponential ones
C32_Witness ==
    /\ Len(tok.outcomes) = 4
    /\ tok.outcomes[1].status = 500 /\ tok.outcomes[1].retryAfter = NumberHeader(1)
    /\ tok.outcomes[2].status = 503 /\ tok.outcomes[2].retryAfter = NumberHeader(0)
    /\ tok.outcomes[3].status = 429 /\ tok.outcomes[3].retryAfter = InfinityHeader
    /\ tok.outcomes[4].status = 429 /\ tok.outcomes[4].retryAfter = NumberHeader(-1)
    /\ tok.sleeps = <<1000, 1000, 2000, 4000>>
    /\ req.sleeps = tok.sleeps
\* C31: nothing keeps two passes over one playlist apart: whatever the order
\* of their calls, a pass that completes reports mirroredCount =
\* candidateCount = the number of its candidates, whether or not the playlist
\* holds the candidates.
C31_OverlapReportsCandidateCount ==
    \A p \in procs :
        run[p].pc \in {"writeState", "done"} =>
            /\ run[p].summary.mirroredCount = run[p].summary.candidateCount
            /\ run[p].summary.candidateCount = Len(run[p].candidate.uris)

\* both passes completed on the same playlist, every call of both succeeded,
\* each reports all its candidates mirrored, and the playlist holds the
\* candidates twice
C31_Witness ==
    /\ impl = "sync-service"
    /\ \A p \in {1, 2} :
         /\ run[p].pc = "done"
         /\ run[p].playlistId = 1
         /\ \A k \in 1 .. Len(run[p].calls) : run[p].calls[k].error = NoError
         /\ run[p].summary.mirroredCount = run[p].summary.candidateCount
         /\ run[p].summary.candidateCount = Len(run[p].candidate.uris)
    /\ run[1].candidate.uris = run[2].candidate.uris
    /\ Len(run[1].candidate.uris) = MaxOverlapLiked
    /\ playlists[1].items # run[1].candidate.uris
    /\ playlists[1].items = run[1].candidate.uris \o run[2].candidate.uris
====
